---- MODULE Spec2Model ----
(***************************************************************************)
(* Model of the echo-chat frontend:                                        *)
(*  - the streaming hook (frontend/src/hooks/useWebSocket.ts): the         *)
(*    WebSocket objects it creates, the React state it keeps (transcript,  *)
(*    transcriptSegments, isConnected, isReceiving, socket, socketRef),    *)
(*    the handlers it installs and sendAudio;                              *)
(*  - the provider catalog (frontend/src/services/providerService.ts,      *)
(*    frontend/src/hooks/useProviders.ts) and the url that Home            *)
(*    (frontend/src/app/page.tsx) builds from it;                          *)
(*  - the chat (ChatInterface): sendMessage and the reading of the         *)
(*    response stream;                                                     *)
(*  - the start script (start.sh): the jobs it starts, its INT trap and    *)
(*    its monitor loop;                                                    *)
(*  - the system audio hook (useSystemAudio): the 'audio-data' listeners   *)
(*    that startCapture registers and stopCapture / unmount release.       *)
(*                                                                         *)
(* Strings are sequences of one-character strings, so that split(' ') and  *)
(* join(' ') are computed as JavaScript computes them.                     *)
(***************************************************************************)
EXTENDS Integers, Sequences, FiniteSets, TLC

(***************************************************************************)
(* Bounds of the model.                                                    *)
(***************************************************************************)
MaxSockets == 2     \* WebSocket objects created by connect() in one run
MaxEvents == 3      \* messages handled plus clearTranscript calls in one run
MaxSessionEvents == 2  \* the same, in runs that also open and close sockets
MaxFrames == 2      \* audio frames given to sendAudio in one run
MaxCalls == 4       \* calls of the provider service in one run
MaxTicks == 2       \* advances of the clock in one run
TicksPerExpiry == 2 \* advances of the clock that make up cacheExpiry
MaxStreamEvents == 3  \* events of one chat response stream
MaxStarts == 2      \* startCapture calls of useSystemAudio in one run

(***************************************************************************)
(* Values.                                                                 *)
(***************************************************************************)
\* seg.confidence is optional (types/index.ts:7); Undefined stands for a
\* missing field, other values are percentages 0..100.
Undefined == 0 - 1
Null == 0           \* socketRef.current = null

SPACE == " "       \* a string is a sequence of one-character strings

\* TranscriptSegment (types/index.ts:2-8); kind "null" is a null entry of a
\* segments array, whose fields cannot be read.
TranscriptSegment(text, speaker, start, end, conf) ==
    [kind |-> "object", text |-> text, speaker |-> speaker,
     start_time |-> start, end_time |-> end, confidence |-> conf]

NullSegment ==
    [kind |-> "null", text |-> <<>>, speaker |-> "", start_time |-> 0,
     end_time |-> 0, confidence |-> Undefined]

\* TranscriptResponse (types/index.ts:11-17) as it arrives in event.data:
\* json "invalid" is text JSON.parse rejects, "null" is the JSON value null,
\* "object" is a JSON object; hasSegments is FALSE when the segments field is
\* absent; transcript is the legacy field, <<>> when absent.
TranscriptResponse(final, segs) ==
    [json |-> "object", is_final |-> final, hasSegments |-> TRUE,
     segments |-> segs, transcript |-> <<>>]

LegacyResponse(final, text) ==
    [json |-> "object", is_final |-> final, hasSegments |-> FALSE,
     segments |-> <<>>, transcript |-> text]

NonJsonMessage ==
    [json |-> "invalid", is_final |-> FALSE, hasSegments |-> FALSE,
     segments |-> <<>>, transcript |-> <<>>]

JsonNullMessage ==
    [json |-> "null", is_final |-> FALSE, hasSegments |-> FALSE,
     segments |-> <<>>, transcript |-> <<>>]

(***************************************************************************)
(* String functions of JavaScript used by the handler.                     *)
(***************************************************************************)
RECURSIVE split(_)
\* String.prototype.split(' '): ''.split(' ') is [''].
split(s) ==
    IF s = <<>> THEN << <<>> >>
    ELSE LET rest == split(Tail(s))
         IN  IF Head(s) = SPACE
             THEN << <<>> >> \o rest
             ELSE << <<Head(s)>> \o Head(rest) >> \o Tail(rest)

RECURSIVE join(_)
\* Array.prototype.join(' ')
join(parts) ==
    IF parts = <<>> THEN <<>>
    ELSE IF Len(parts) = 1 THEN parts[1]
    ELSE parts[1] \o <<SPACE>> \o join(Tail(parts))

\* parts.slice(0, -1)
sliceInit(parts) == SubSeq(parts, 1, Len(parts) - 1)

\* data.segments.map(seg => seg.text)
mapText(segments) == [i \in 1..Len(segments) |-> segments[i].text]

\* data.segments.map(seg => seg.text).join(' ')   (useWebSocket.ts:48)
segmentText(segments) == join(mapText(segments))

\* reading a property of a null entry throws TypeError
HasNullEntry(segments) == \E i \in 1..Len(segments) : segments[i].kind = "null"

(***************************************************************************)
(* Messages the server can send: the inputs of ws.onmessage.               *)
(***************************************************************************)
segA == TranscriptSegment(<<"a">>, "Speaker A", 0, 1, Undefined)
segB == TranscriptSegment(<<"b">>, "Speaker A", 0, 2, 90)
segAB == TranscriptSegment(<<"a", SPACE, "b">>, "Speaker B", 0, 3, Undefined)
finA == TranscriptSegment(<<"a">>, "Speaker A", 1, 4, 90)
finB == TranscriptSegment(<<"b">>, "Speaker B", 0, 5, 0)
finAB == TranscriptSegment(<<"a", SPACE, "b">>, "Speaker A", 2, 6, Undefined)

InterimMessages ==
    { TranscriptResponse(FALSE, <<segA>>),
      TranscriptResponse(FALSE, <<segB>>),
      TranscriptResponse(FALSE, <<segAB>>) }

FinalMessages ==
    { TranscriptResponse(TRUE, <<finA, finB>>),
      TranscriptResponse(TRUE, <<finAB>>),
      TranscriptResponse(TRUE, <<>>) }

LegacyMessages ==
    { LegacyResponse(FALSE, <<"a">>), LegacyResponse(TRUE, <<"b">>) }

MalformedMessages ==
    { NonJsonMessage, JsonNullMessage,
      LegacyResponse(FALSE, <<>>),               \* {"is_final": false}
      TranscriptResponse(TRUE, <<NullSegment>>) } \* "segments": [null]

Messages ==
    InterimMessages \cup FinalMessages \cup LegacyMessages \cup MalformedMessages

(***************************************************************************)
(* The provider catalog (services/providerService.ts, hooks/useProviders.ts)*)
(***************************************************************************)
Kinds == { "llm", "stt" }

\* ProviderMetadata (types/index.ts:44-57): the fields the frontend reads
ProviderMetadata(name, provider_type, default_model) ==
    [name |-> name, provider_type |-> provider_type,
     default_model |-> default_model]

deepgram == ProviderMetadata("deepgram", "stt", "nova-2")
whisper == ProviderMetadata("whisper", "stt", "base")
openai == ProviderMetadata("openai", "llm", "gpt-4o")

\* undefined, where a ProviderMetadata is expected
NoProvider == ProviderMetadata("", "", "")

\* The catalogs the backend can answer GET /api/providers/{type} with.
Catalogs(type) ==
    IF type = "stt"
    THEN { <<>>, << deepgram, whisper >>, << whisper >> }
    ELSE { <<>>, << openai >> }

\* What a fetch can end with: a ProvidersResponse, or a failure (network
\* error, timeout, response.ok false).
Failed == [ok |-> FALSE, providers |-> <<>>]
Responses(type) ==
    { Failed } \cup { [ok |-> TRUE, providers |-> c] : c \in Catalogs(type) }

\* fetchProviders (providerService.ts:21-52): data.providers, or [] when
\* anything was thrown
fetchProviders(response) ==
    IF response.ok THEN response.providers ELSE <<>>

\* the value of llmProvidersCache / sttProvidersCache: null or a list
NoCache == [isNull |-> TRUE, list |-> <<>>]
Cached(list) == [isNull |-> FALSE, list |-> list]

cacheExpiry == 5 * 60 * 1000
Tick == cacheExpiry \div TicksPerExpiry

\* The useProviders instances of the page: Home (page.tsx:12), the
\* TranscriptSidebar and the ChatInterface.
Instances == { "home", "sidebar", "chat" }
typeOf(i) == IF i = "chat" THEN "llm" ELSE "stt"

NoError == "null"    \* error === null

\* useState initial values (useProviders.ts:6-10)
HookInit ==
    [providers |-> <<>>, selectedProvider |-> "", selectedModel |-> "",
     isLoading |-> TRUE, error |-> NoError]

\* a loadProviders call: not running, or suspended at the await of lines
\* 18-20 with the selectedProvider of its closure and the service's now
NotLoading == [phase |-> "idle", selectedProvider |-> "", now |-> 0]
Fetching(selectedProvider, t) ==
    [phase |-> "fetching", selectedProvider |-> selectedProvider, now |-> t]

\* what getDefaultProvider resolved to: a provider or undefined
NotResolved == [outcome |-> "none", providers |-> <<>>, provider |-> NoProvider]

\* what getProviderByName resolved to for a name: a provider or undefined
NotLookedUp ==
    [outcome |-> "none", name |-> "", providers |-> <<>>, provider |-> NoProvider]

\* history entries: a call of selectProvider, and a call of getLlmProviders
\* (type "llm") or getSttProviders (type "stt") with whether it fetched
NotAsked == [instance |-> "", name |-> ""]
Asked(i, providerName) == [instance |-> i, name |-> providerName]
NoGet == [type |-> "", forceRefresh |-> FALSE, fetched |-> FALSE]
Get(type, forceRefresh, fetched) ==
    [type |-> type, forceRefresh |-> forceRefresh, fetched |-> fetched]

\* the url of the WebSocket: /ws/stream with the query parameters provider
\* and model, "" for a parameter that is absent
Url(provider, model) == [path |-> "/ws/stream", provider |-> provider, model |-> model]

(***************************************************************************)
(* The start script (start.sh).                                            *)
(***************************************************************************)
\* the background jobs of lines 28 and 46, whose PIDs are $BACKEND_PID and
\* $FRONTEND_PID
Jobs == { "backend", "frontend" }

\* the file that holds the PID of a job (lines 75-76)
PidFile(job) == IF job = "backend" THEN ".backend.pid" ELSE ".frontend.pid"

\* exit statuses: none while the script runs; 128 + SIGINT when the shell
\* is ended by the signal
NoExit == 0 - 1
SIGINT == 2
ExitBySignal(sig) == 128 + sig

(***************************************************************************)
(* The chat response stream (ChatInterface: unnamed/part_009 and           *)
(* components/ChatInterface.tsx).                                          *)
(***************************************************************************)
\* The JSON objects of the stream: {"chunk": text}, {"done": true} and
\* {"error": message}; texts are sequences of one-character strings.
Chunk(text) == [kind |-> "chunk", text |-> text]
Done == [kind |-> "done", text |-> <<>>]
ErrorChunk(message) == [kind |-> "error", text |-> message]
NoEvent == [kind |-> "none", text |-> <<>>]

\* The body is a sequence of pieces of text: the prefix 'data: ', the
\* opening brace, the rest of a JSON object up to its closing brace, the
\* closing brace, and the newline; a read can end after any piece.
Piece(t, e) == [t |-> t, e |-> e]
DATA == Piece("data: ", NoEvent)
LBRACE == Piece("{", NoEvent)
RBRACE == Piece("}", NoEvent)
NL == Piece("\n", NoEvent)
Json(e) == Piece("json", e)

\* one event as the server writes it: data: {...}\n\n
Line(e) == << DATA, LBRACE, Json(e), RBRACE, NL, NL >>

RECURSIVE Body(_)
Body(events) ==
    IF events = <<>> THEN <<>> ELSE Line(Head(events)) \o Body(Tail(events))

StreamEvents ==
    { Chunk(<<"S", "u", "m">>), Chunk(<<"m", "a", "r", "y">>), Chunk(<<>>),
      Done, ErrorChunk(<<"boom">>) }

RECURSIVE SeqsUpTo(_, _)
\* the sequences over S of length at most n
SeqsUpTo(S, n) ==
    IF n = 0 THEN { <<>> }
    ELSE LET shorter == SeqsUpTo(S, n - 1)
         IN  shorter \cup { Append(q, x) : q \in shorter, x \in S }

\* the text handleChatError puts into the assistant message
ErrorMessage == << "Sorry, there was an error processing your request. Please try again." >>

\* ChatMessage ids: `user-${idCounter}`, `assistant-${idCounter}`
MessageId(prefix, n) == [prefix |-> prefix, n |-> n]
NoMessageId == MessageId("", 0)

ChatMessage(id, type, content) == [id |-> id, type |-> type, content |-> content]

\* a sendMessage call: where it is suspended, and its locals
\* assistantMessage.id and buffer
NoRequest == [pc |-> "idle", assistantMessageId |-> NoMessageId, buffer |-> <<>>]

Queries == { <<>>, << " " >>, << "s", "u", "m" >> }

RECURSIVE trimStart(_)
trimStart(text) ==
    IF text # <<>> /\ Head(text) = " " THEN trimStart(Tail(text)) ELSE text

RECURSIVE trimEnd(_)
trimEnd(text) ==
    IF text # <<>> /\ text[Len(text)] = " "
    THEN trimEnd(SubSeq(text, 1, Len(text) - 1))
    ELSE text

\* String.prototype.trim()
trim(text) == trimEnd(trimStart(text))

(***************************************************************************)
(* State.                                                                  *)
(***************************************************************************)
VARIABLES
    sockets,             \* readyState of every WebSocket created by connect()
    socketRef,           \* socketRef.current: index into sockets, or Null
    socket,              \* useState(null): the socket last opened, or Null
    isConnected,         \* useState(false)
    isReceiving,         \* useState(false)
    timers,              \* setTimeout callbacks of line 77 not yet run
    transcript,          \* useState('')
    transcriptSegments,  \* useState([])
    segmentsQueue,       \* updates of transcriptSegments not yet rendered
    transcriptQueue,     \* updates of transcript not yet rendered
    renderError,         \* an updater threw while React rendered
    received,            \* history: what the handlers were given, in order
    applied,             \* history: how many entries of received are rendered
    stopRequested,       \* history: per socket, disconnect() was called since
    lastCall,            \* history: the caller's last connect()/disconnect()
    sent,                \* what ws.send() was given, per call: socket and data
    submitted,           \* history: what sendAudio was given, in order
    socketUrls,          \* the url every WebSocket was created with
    cache,               \* providerService: llmProvidersCache, sttProvidersCache
    lastFetch,           \* providerService: lastLlmFetch, lastSttFetch
    now,                 \* Date.now()
    hooks,               \* the state of every useProviders instance
    loads,               \* per instance, the loadProviders call awaiting its fetch
    calls,               \* how many calls of the provider service were made
    defaultProvider,     \* per kind, what getDefaultProvider last resolved to
    outcomes,            \* history: per instance, how its last load got its list
    picked,              \* history: the user's last pick in the Speech Provider selector
    asked,               \* history: the last call of selectProvider: instance and name
    lookup,              \* what getProviderByName last resolved to
    lastGet,             \* history: the last call of getLlmProviders / getSttProviders
    cleared,             \* history: per kind, clearCache ran and no call followed yet
    messages,            \* ChatInterface: useState<ChatMessage[]>([])
    idCounter,           \* ChatInterface: useState(0)
    isLoading,           \* ChatInterface: useState(false)
    request,             \* the sendMessage call in progress: its position and locals
    stream,              \* the bytes of the response body not yet read
    served,              \* history: the events the server wrote for the request
    brokeLine,           \* history: a read of the request ended inside a line
    chatOutcome,         \* history: how the last request ended
    scriptPc,            \* start.sh: the line the script is at, or "exited"
    services,            \* start.sh: the state of the backend and frontend jobs
    killed,              \* start.sh: the jobs that kill was sent to
    interrupted,         \* start.sh: the jobs that act on the SIGINT of Ctrl+C
    pidFiles,            \* start.sh: which of .backend.pid, .frontend.pid exist
    trapInt,             \* start.sh: the trap of line 79 is installed
    exitStatus,          \* start.sh: the exit status of the script
    exitLine,            \* history: the line of start.sh whose exit ended it
    listeners,           \* useSystemAudio: the registered 'audio-data' listeners
    unlistenRef,         \* useSystemAudio: unlistenRef.current, a listener or Null
    isCapturing,         \* useSystemAudio: useState(false)
    capturing,           \* the Tauri backend is capturing and emits 'audio-data'
    starts,              \* useSystemAudio: the startCapture calls in progress
    started,             \* how many startCapture calls were made
    stopPc,              \* useSystemAudio: where the stopCapture call in progress is
    mounted,             \* useSystemAudio: the component is mounted
    lastCapture,         \* history: the last startCapture call or stopCapture return
    frames               \* history: per 'audio-data' event, the calls of onAudioData

vars ==
    << sockets, socketRef, socket, isConnected, isReceiving, timers,
       transcript, transcriptSegments, segmentsQueue, transcriptQueue,
       renderError, received, applied, stopRequested, lastCall,
       sent, submitted, socketUrls, cache, lastFetch, now, hooks, loads,
       calls, defaultProvider, outcomes, picked, asked, lookup, lastGet,
       cleared, messages, idCounter,
       isLoading, request, stream, served, brokeLine,
       chatOutcome, scriptPc, services, killed, interrupted,
       pidFiles, trapInt, exitStatus, exitLine, listeners, unlistenRef,
       isCapturing, capturing, starts, started, stopPc, mounted, lastCapture,
       frames >>

hookState == << socketRef, socket, isConnected >>
receiving == << isReceiving, timers >>
reactState == << transcript, transcriptSegments >>
queues == << segmentsQueue, transcriptQueue >>
audioState == << sent, submitted >>
service == << cache, lastFetch >>
serviceHistory == << lookup, lastGet, cleared >>
providerState ==
    << cache, lastFetch, now, hooks, loads, calls, defaultProvider, outcomes,
       picked, asked, serviceHistory >>
chatState ==
    << messages, idCounter, isLoading, request, stream, served, brokeLine,
       chatOutcome >>

scriptState ==
    << scriptPc, services, killed, interrupted, pidFiles, trapInt, exitStatus,
       exitLine >>

captureState ==
    << listeners, unlistenRef, isCapturing, capturing, starts, started, stopPc,
       mounted, lastCapture, frames >>

\* the state that the handlers of the socket and of the transcript leave alone
outsideHook ==
    << audioState, providerState, chatState, scriptState, captureState >>

\* the provider service and the useProviders instances after construction
InitProviders ==
    /\ cache = [type \in Kinds |-> NoCache]
    /\ lastFetch = [type \in Kinds |-> 0]
    /\ now = 0
    /\ hooks = [i \in Instances |-> HookInit]
    /\ loads = [i \in Instances |-> NotLoading]
    /\ calls = 0
    /\ defaultProvider = [type \in Kinds |-> NotResolved]
    /\ outcomes = [i \in Instances |-> "none"]
    /\ picked = ""
    /\ asked = NotAsked
    /\ lookup = NotLookedUp
    /\ lastGet = NoGet
    /\ cleared = [type \in Kinds |-> FALSE]

\* ChatInterface after construction
InitChat ==
    /\ messages = <<>>
    /\ idCounter = 0
    /\ isLoading = FALSE
    /\ request = NoRequest
    /\ stream = <<>>
    /\ served = <<>>
    /\ brokeLine = FALSE
    /\ chatOutcome = "none"

\* start.sh before its first line runs, in a checkout without PID files
InitScript ==
    /\ scriptPc = "checkRoot"
    /\ services = [job \in Jobs |-> "none"]
    /\ killed = {}
    /\ interrupted = {}
    /\ pidFiles = {}
    /\ trapInt = FALSE
    /\ exitStatus = NoExit
    /\ exitLine = 0

\* useSystemAudio after its first render (useProviders.ts:116-124)
InitCapture ==
    /\ listeners = {}
    /\ unlistenRef = Null
    /\ isCapturing = FALSE
    /\ capturing = FALSE
    /\ starts = <<>>
    /\ started = 0
    /\ stopPc = "idle"
    /\ mounted = TRUE
    /\ lastCapture = "none"
    /\ frames = <<>>

Init ==
    /\ sockets = <<>>
    /\ socketRef = Null
    /\ socket = Null
    /\ isConnected = FALSE
    /\ isReceiving = FALSE
    /\ timers = 0
    /\ transcript = <<>>
    /\ transcriptSegments = <<>>
    /\ segmentsQueue = <<>>
    /\ transcriptQueue = <<>>
    /\ renderError = FALSE
    /\ received = <<>>
    /\ applied = 0
    /\ stopRequested = <<>>
    /\ lastCall = "none"
    /\ sent = <<>>
    /\ submitted = <<>>
    /\ socketUrls = <<>>
    /\ InitProviders
    /\ InitChat
    /\ InitScript
    /\ InitCapture

(***************************************************************************)
(* The state updaters of ws.onmessage.                                     *)
(***************************************************************************)
\* seg => seg.confidence !== undefined && seg.confidence > 0   (line 42)
keepsSegment(seg) == seg.confidence # Undefined /\ seg.confidence > 0

\* An updater that smooths speaker labels across segments: every segment it
\* adds takes the label of the segment held before it.
segmentsUpdaterSmoothed(data, prev) ==
    LET kept == IF data.is_final THEN prev ELSE SelectSeq(prev, keepsSegment)
        relabel(seg) ==
            IF kept # <<>> /\ seg.kind = "object" /\ kept[Len(kept)].kind = "object"
            THEN [seg EXCEPT !.speaker = kept[Len(kept)].speaker]
            ELSE seg
    IN  kept \o [i \in 1..Len(data.segments) |-> relabel(data.segments[i])]

\* The updater given to setTranscriptSegments (lines 36-45).
segmentsUpdater(data, prev) ==
    IF data.is_final
    THEN prev \o data.segments
    ELSE SelectSeq(prev, keepsSegment) \o data.segments

\* The filter callback of line 42 reads seg.confidence of every entry of
\* prev: a null entry makes the updater throw.
segmentsUpdaterThrows(data, prev) == ~data.is_final /\ HasNullEntry(prev)

\* The updater given to setTranscript (lines 49-58, and lines 62-71 with
\* data.transcript as the text).
transcriptUpdater(is_final, text, prev) ==
    IF is_final
    THEN prev \o text \o <<SPACE>>
    ELSE LET parts == split(prev)
             finalParts == sliceInit(parts)
         IN  join(finalParts)
                 \o (IF Len(finalParts) > 0 THEN <<SPACE>> ELSE <<>>)
                 \o text

\* Entries of the update queues: a pending updater call, or (set) a value.
SegmentsUpdate(data) == [set |-> FALSE, data |-> data]
SegmentsValue(v) == [set |-> TRUE, data |-> TranscriptResponse(TRUE, v)]
TranscriptUpdate(is_final, text) == [set |-> FALSE, is_final |-> is_final, text |-> text]
TranscriptValue(v) == [set |-> TRUE, is_final |-> TRUE, text |-> v]

\* What the try block of ws.onmessage does before it ends or throws:
\* the branch of line 35, the branch of line 61, or neither.
takesSegmentsBranch(data) ==
    data.json = "object" /\ data.hasSegments /\ Len(data.segments) > 0

takesLegacyBranch(data) ==
    data.json = "object" /\ ~takesSegmentsBranch(data) /\ data.transcript # <<>>

\* Lines 74-77 are reached unless JSON.parse (line 32), the read of
\* data.segments on null (line 35) or the read of seg.text on a null entry
\* (line 48) has thrown.
reachesEndOfTry(data) ==
    /\ data.json = "object"
    /\ ~(takesSegmentsBranch(data) /\ HasNullEntry(data.segments))

\* setTranscriptSegments(...) of line 36
segmentsUpdatesOf(data) ==
    IF takesSegmentsBranch(data) THEN << SegmentsUpdate(data) >> ELSE <<>>

\* setTranscript(...) of line 49 (not reached when line 48 throws on a null
\* entry) or of line 62
transcriptUpdatesOf(data) ==
    IF takesSegmentsBranch(data)
    THEN IF HasNullEntry(data.segments) THEN <<>>
         ELSE << TranscriptUpdate(data.is_final, segmentText(data.segments)) >>
    ELSE IF takesLegacyBranch(data)
    THEN << TranscriptUpdate(data.is_final, data.transcript) >>
    ELSE <<>>

(***************************************************************************)
(* React applies the queued updates of a hook in the order of the calls.   *)
(***************************************************************************)
RECURSIVE applySegmentsQueue(_, _)
applySegmentsQueue(queue, prev) ==
    IF queue = <<>> THEN [ok |-> TRUE, value |-> prev]
    ELSE LET u == Head(queue)
         IN  IF u.set THEN applySegmentsQueue(Tail(queue), u.data.segments)
             ELSE IF segmentsUpdaterThrows(u.data, prev)
             THEN [ok |-> FALSE, value |-> prev]
             ELSE applySegmentsQueue(Tail(queue), segmentsUpdater(u.data, prev))

\* A render that coalesces the queue: only the last update reaches the state,
\* as with setTranscript(transcript + text) in place of an updater function.
applyTranscriptQueueCoalesced(queue, prev) ==
    IF queue = <<>> THEN prev
    ELSE LET u == queue[Len(queue)]
         IN  IF u.set THEN u.text
             ELSE transcriptUpdater(u.is_final, u.text, prev)

RECURSIVE applyTranscriptQueue(_, _)
applyTranscriptQueue(queue, prev) ==
    IF queue = <<>> THEN prev
    ELSE LET u == Head(queue)
         IN  applyTranscriptQueue(Tail(queue),
                 IF u.set THEN u.text
                 ELSE transcriptUpdater(u.is_final, u.text, prev))

(***************************************************************************)
(* The WebSocket objects (browser side).                                   *)
(***************************************************************************)
Sockets == 1..Len(sockets)

\* WebSocket.close(): starts the closing handshake unless already closing
close(readyState) ==
    IF readyState \in {"CONNECTING", "OPEN"} THEN "CLOSING" ELSE readyState

\* history entries
Handled(ws, data) == [ws |-> ws, clear |-> FALSE, data |-> data]
Cleared == [ws |-> Null, clear |-> TRUE, data |-> JsonNullMessage]

(***************************************************************************)
(* Operations of the hook.                                                 *)
(***************************************************************************)
\* wsUrl (page.tsx:16-18): the url Home gives to useWebSocket, from the
\* selection of its own useSttProviders instance
wsUrl ==
    LET h == hooks["home"]
    IN  IF h.selectedProvider # ""
        THEN Url(h.selectedProvider, h.selectedModel)
        ELSE Url("", "")

\* A connect that starts every session with an empty transcript, as if it
\* called setTranscript('') and setTranscriptSegments([]) before new WebSocket.
connectStartsEmpty ==
    /\ ~renderError
    /\ lastCall' = "connect"
    /\ IF socketRef # Null /\ sockets[socketRef] = "OPEN"
       THEN UNCHANGED << sockets, stopRequested, socketUrls, reactState >>
       ELSE /\ Len(sockets) < MaxSockets
            /\ sockets' = Append(sockets, "CONNECTING")
            /\ stopRequested' = Append(stopRequested, FALSE)
            /\ socketUrls' = Append(socketUrls, wsUrl)
            /\ transcript' = <<>>
            /\ transcriptSegments' = <<>>
    /\ UNCHANGED << hookState, receiving, queues, renderError,
                    received, applied >>
    /\ UNCHANGED outsideHook

\* connect (lines 15-28): returns early when socketRef.current is OPEN,
\* otherwise creates a WebSocket; socketRef is only set by its onopen.
connect ==
    /\ ~renderError
    /\ lastCall' = "connect"
    /\ IF socketRef # Null /\ sockets[socketRef] = "OPEN"
       THEN UNCHANGED << sockets, stopRequested, socketUrls >>
       ELSE /\ Len(sockets) < MaxSockets
            /\ sockets' = Append(sockets, "CONNECTING")
            /\ stopRequested' = Append(stopRequested, FALSE)
            /\ socketUrls' = Append(socketUrls, wsUrl)
    /\ UNCHANGED << hookState, receiving, reactState, queues, renderError,
                    received, applied >>
    /\ UNCHANGED outsideHook

\* disconnect (lines 97-101), also the unmount cleanup (lines 120-124)
disconnect ==
    /\ ~renderError
    /\ lastCall' = "disconnect"
    /\ sockets' = IF socketRef # Null
                  THEN [sockets EXCEPT ![socketRef] = close(@)]
                  ELSE sockets
    /\ stopRequested' = [ws \in Sockets |-> TRUE]
    /\ UNCHANGED << hookState, receiving, reactState, queues, renderError,
                    received, applied >>
    /\ UNCHANGED << socketUrls, outsideHook >>

\* ws.onopen (lines 24-28)
onopen(ws) ==
    /\ ~renderError
    /\ sockets[ws] = "CONNECTING"
    /\ sockets' = [sockets EXCEPT ![ws] = "OPEN"]
    /\ isConnected' = TRUE
    /\ socket' = ws
    /\ socketRef' = ws
    /\ UNCHANGED << receiving, reactState, queues, renderError, received,
                    applied, stopRequested, lastCall >>
    /\ UNCHANGED << socketUrls, outsideHook >>

\* ws.onclose (lines 83-89): the close event of a socket that the peer
\* closed or whose closing handshake, started by close(), has finished
onclose(ws) ==
    /\ ~renderError
    /\ sockets[ws] \in {"OPEN", "CLOSING"}
    /\ sockets' = [sockets EXCEPT ![ws] = "CLOSED"]
    /\ isConnected' = FALSE
    /\ socket' = Null
    /\ socketRef' = Null
    /\ isReceiving' = FALSE
    /\ UNCHANGED << timers, reactState, queues, renderError, received, applied,
                    stopRequested, lastCall >>
    /\ UNCHANGED << socketUrls, outsideHook >>

\* ws.onerror (lines 91-94): the connection failed; the browser fires error
\* and then close (onclose, lines 83-89) on the closed socket
onerror(ws) ==
    /\ ~renderError
    /\ sockets[ws] \in {"CONNECTING", "OPEN"}
    /\ sockets' = [sockets EXCEPT ![ws] = "CLOSED"]
    /\ isConnected' = FALSE
    /\ socket' = Null
    /\ socketRef' = Null
    /\ isReceiving' = FALSE
    /\ UNCHANGED << timers, reactState, queues, renderError, received, applied,
                    stopRequested, lastCall >>
    /\ UNCHANGED << socketUrls, outsideHook >>

\* ws.onmessage (lines 30-81): the browser delivers messages of OPEN sockets
\* only; whatever the try block throws is caught (line 78)
onmessage(ws, data) ==
    /\ ~renderError
    /\ sockets[ws] = "OPEN"
    /\ Len(received) < MaxEvents
    /\ segmentsQueue' = segmentsQueue \o segmentsUpdatesOf(data)
    /\ transcriptQueue' = transcriptQueue \o transcriptUpdatesOf(data)
    /\ IF reachesEndOfTry(data)
       THEN isReceiving' = TRUE /\ timers' = timers + 1
       ELSE UNCHANGED receiving
    /\ received' = Append(received, Handled(ws, data))
    /\ UNCHANGED << sockets, hookState, reactState, renderError, applied,
                    stopRequested, lastCall >>
    /\ UNCHANGED << socketUrls, outsideHook >>

\* clearTranscript (lines 115-118)
clearTranscript ==
    /\ ~renderError
    /\ Len(received) < MaxEvents
    /\ transcriptQueue' = Append(transcriptQueue, TranscriptValue(<<>>))
    /\ segmentsQueue' = Append(segmentsQueue, SegmentsValue(<<>>))
    /\ received' = Append(received, Cleared)
    /\ UNCHANGED << sockets, hookState, receiving, reactState, renderError,
                    applied, stopRequested, lastCall >>
    /\ UNCHANGED << socketUrls, outsideHook >>

\* React renders the component: the queued updates of both state hooks
\* (lines 10-11) are applied in call order; an updater that throws ends the
\* render with an uncaught error.
render ==
    /\ ~renderError
    /\ applied < Len(received)
    /\ LET segs == applySegmentsQueue(segmentsQueue, transcriptSegments)
       IN  IF segs.ok
           THEN /\ transcriptSegments' = segs.value
                /\ transcript' = applyTranscriptQueue(transcriptQueue, transcript)
                /\ segmentsQueue' = <<>>
                /\ transcriptQueue' = <<>>
                /\ applied' = Len(received)
                /\ UNCHANGED renderError
           ELSE /\ renderError' = TRUE
                /\ UNCHANGED << reactState, queues, applied >>
    /\ UNCHANGED << sockets, hookState, receiving, received, stopRequested,
                    lastCall >>
    /\ UNCHANGED << socketUrls, outsideHook >>

\* The callback of setTimeout (line 77), RECEIVING_TIMEOUT after a message
receivingTimeout ==
    /\ ~renderError
    /\ timers > 0
    /\ timers' = timers - 1
    /\ isReceiving' = FALSE
    /\ UNCHANGED << sockets, hookState, reactState, queues, renderError,
                    received, applied, stopRequested, lastCall >>
    /\ UNCHANGED << socketUrls, outsideHook >>

\* The audio frames the recorder produces (an ArrayBuffer each).
AudioData == { "pcm1", "pcm2" }

\* history entry: a frame given to sendAudio, with the sockets that were
\* connecting and open at that moment and the number created until then
Submitted(audioData) ==
    [data |-> audioData,
     connecting |-> { ws \in Sockets : sockets[ws] = "CONNECTING" },
     open |-> { ws \in Sockets : sockets[ws] = "OPEN" },
     created |-> Len(sockets)]

\* a call of ws.send(audioData)
Sent(ws, audioData) == [ws |-> ws, data |-> audioData]

\* sendAudio (lines 103-113): forwards the frame when socketRef.current is
\* OPEN, otherwise warns and returns; nothing is kept for later
sendAudio(audioData) ==
    /\ ~renderError
    /\ Len(submitted) < MaxFrames
    /\ submitted' = Append(submitted, Submitted(audioData))
    /\ IF socketRef # Null /\ sockets[socketRef] = "OPEN"
       THEN sent' = Append(sent, Sent(socketRef, audioData))
       ELSE UNCHANGED sent
    /\ UNCHANGED << sockets, hookState, receiving, reactState, queues,
                    renderError, received, applied, stopRequested, lastCall >>
    /\ UNCHANGED << socketUrls, providerState, chatState, scriptState,
                    captureState >>

\* Messages of the runs that also open and close sockets.
SessionMessages ==
    { TranscriptResponse(FALSE, <<segA>>), TranscriptResponse(TRUE, <<finAB>>) }

\* The hook from its construction: sockets are opened, closed and fail, and
\* the server sends SessionMessages.
Next ==
    \/ connect
    \/ disconnect
    \/ \E ws \in Sockets : onopen(ws)
    \/ \E ws \in Sockets : onclose(ws)
    \/ \E ws \in Sockets : onerror(ws)
    \/ \E ws \in Sockets : \E data \in SessionMessages :
          Len(received) < MaxSessionEvents /\ onmessage(ws, data)
    \/ Len(received) < MaxSessionEvents /\ clearTranscript
    \/ render
    \/ receivingTimeout

Spec == Init /\ [][Next]_vars

\* One session in progress: the state after connect() and ws.onopen, from
\* which the server sends any of Messages on the open socket.
InitSession ==
    /\ sockets = << "OPEN" >>
    /\ socketRef = 1
    /\ socket = 1
    /\ isConnected = TRUE
    /\ isReceiving = FALSE
    /\ timers = 0
    /\ transcript = <<>>
    /\ transcriptSegments = <<>>
    /\ segmentsQueue = <<>>
    /\ transcriptQueue = <<>>
    /\ renderError = FALSE
    /\ received = <<>>
    /\ applied = 0
    /\ stopRequested = << FALSE >>
    /\ lastCall = "connect"
    /\ sent = <<>>
    /\ submitted = <<>>
    /\ socketUrls = << Url("", "") >>
    /\ InitProviders
    /\ InitChat
    /\ InitScript
    /\ InitCapture

NextSession ==
    \/ \E ws \in Sockets : \E data \in Messages : onmessage(ws, data)
    \/ clearTranscript
    \/ render
    \/ receivingTimeout

SpecSession == InitSession /\ [][NextSession]_vars

\* The hook from its construction with the recorder running: sockets are
\* opened, closed and fail while audio frames are given to sendAudio.
NextAudio ==
    \/ connect
    \/ disconnect
    \/ \E ws \in Sockets : onopen(ws)
    \/ \E ws \in Sockets : onclose(ws)
    \/ \E ws \in Sockets : onerror(ws)
    \/ \E audioData \in AudioData : sendAudio(audioData)

SpecAudio == Init /\ [][NextAudio]_vars

(***************************************************************************)
(* The provider service and the useProviders hook.                         *)
(***************************************************************************)
outsideProviders ==
    << sockets, hookState, receiving, reactState, queues, renderError,
       received, applied, stopRequested, lastCall, audioState, socketUrls,
       chatState, scriptState, captureState >>

\* the test of getLlmProviders / getSttProviders (providerService.ts:57, 71)
\* that returns the cached list without a fetch
isCached(type, forceRefresh, t) ==
    /\ ~forceRefresh
    /\ ~cache[type].isNull
    /\ (t - lastFetch[type]) < cacheExpiry

\* getDefaultProvider (providerService.ts:98-105) on the list it awaited
getDefaultProviderLast(providers) ==
    IF Len(providers) > 0
    THEN [outcome |-> "provider", providers |-> providers,
          provider |-> providers[Len(providers)]]
    ELSE [outcome |-> "undefined", providers |-> providers,
          provider |-> NoProvider]

getDefaultProviderOf(providers) ==
    IF Len(providers) > 0
    THEN [outcome |-> "provider", providers |-> providers,
          provider |-> providers[1]]
    ELSE [outcome |-> "undefined", providers |-> providers,
          provider |-> NoProvider]

\* loadProviders after its await (useProviders.ts:22-31, 36-38):
\* selectedProvider is the one of the closure that made the call
loaded(h, selectedProvider, providersData) ==
    LET setsDefault == selectedProvider = "" /\ Len(providersData) > 0
    IN  [providers |-> providersData,
         selectedProvider |->
             IF setsDefault THEN providersData[1].name ELSE h.selectedProvider,
         selectedModel |->
             IF setsDefault THEN providersData[1].default_model
             ELSE h.selectedModel,
         isLoading |-> FALSE,
         error |-> NoError]

\* loadProviders (useProviders.ts:12-39) up to its await, called by the
\* effect of lines 41-48 or, with forceRefresh, by refreshProviders (78-80);
\* when the service answers from its cache the call runs to its end
loadProviders(i, forceRefresh) ==
    /\ calls < MaxCalls
    /\ loads[i].phase = "idle"
    /\ calls' = calls + 1
    /\ LET type == typeOf(i)
           h == hooks[i]
       IN  /\ IF isCached(type, forceRefresh, now)
              THEN /\ hooks' = [hooks EXCEPT
                                  ![i] = loaded(h, h.selectedProvider, cache[type].list)]
                   /\ outcomes' = [outcomes EXCEPT ![i] = "cached"]
                   /\ UNCHANGED loads
              ELSE /\ hooks' = [hooks EXCEPT ![i].isLoading = TRUE,
                                              ![i].error = NoError]
                   /\ loads' = [loads EXCEPT ![i] = Fetching(h.selectedProvider, now)]
                   /\ UNCHANGED outcomes
           /\ lastGet' = Get(type, forceRefresh, ~isCached(type, forceRefresh, now))
           /\ cleared' = [cleared EXCEPT ![type] = FALSE]
    /\ UNCHANGED << service, now, defaultProvider, picked, asked, lookup,
                    outsideProviders >>

\* The fetch of a loadProviders call ends: the service stores the list and
\* the time of the call (providerService.ts:61-63, 75-77) and loadProviders
\* goes on after its await.
fetchSettles(i, response) ==
    /\ loads[i].phase = "fetching"
    /\ LET type == typeOf(i)
           providersData == fetchProviders(response)
       IN  /\ cache' = [cache EXCEPT ![type] = Cached(providersData)]
           /\ lastFetch' = [lastFetch EXCEPT ![type] = loads[i].now]
           /\ hooks' = [hooks EXCEPT
                          ![i] = loaded(hooks[i], loads[i].selectedProvider,
                                        providersData)]
    /\ loads' = [loads EXCEPT ![i] = NotLoading]
    /\ outcomes' = [outcomes EXCEPT ![i] = IF response.ok THEN "ok" ELSE "failed"]
    /\ UNCHANGED << now, calls, defaultProvider, picked, asked, serviceHistory,
                    outsideProviders >>

\* A selectProvider that takes any name: it sets selectedProvider without
\* looking the name up, and leaves the model alone when the name is unknown.
selectProviderUnchecked(i, providerName) ==
    /\ LET h == hooks[i]
           found == { k \in 1..Len(h.providers) : h.providers[k].name = providerName }
       IN  /\ hooks' = [hooks EXCEPT
                           ![i].selectedProvider = providerName,
                           ![i].selectedModel =
                               IF found # {}
                               THEN h.providers[CHOOSE k \in found :
                                                   \A m \in found : k <= m].default_model
                               ELSE @]
           /\ picked' = IF i = "sidebar" THEN providerName ELSE picked
    /\ asked' = Asked(i, providerName)
    /\ UNCHANGED << service, now, loads, calls, defaultProvider, outcomes,
                    serviceHistory, outsideProviders >>

\* selectProvider (useProviders.ts:50-56); the Speech Provider selector of
\* the sidebar calls it with the name the user picked
selectProvider(i, providerName) ==
    /\ LET h == hooks[i]
           found == { k \in 1..Len(h.providers) : h.providers[k].name = providerName }
       IN  IF found # {}
           THEN LET provider == h.providers[CHOOSE k \in found : \A m \in found : k <= m]
                IN  /\ hooks' = [hooks EXCEPT
                                    ![i].selectedProvider = providerName,
                                    ![i].selectedModel = provider.default_model]
                    /\ picked' = IF i = "sidebar" THEN providerName ELSE picked
           ELSE UNCHANGED << hooks, picked >>
    /\ asked' = Asked(i, providerName)
    /\ UNCHANGED << service, now, loads, calls, defaultProvider, outcomes,
                    serviceHistory, outsideProviders >>

\* getDefaultProvider (providerService.ts:98-105), with the fetch that its
\* call of getLlmProviders / getSttProviders makes when the cache does not
\* answer
getDefaultProvider(type, response) ==
    /\ calls < MaxCalls
    /\ calls' = calls + 1
    /\ IF isCached(type, FALSE, now)
       THEN /\ defaultProvider' =
                   [defaultProvider EXCEPT ![type] = getDefaultProviderOf(cache[type].list)]
            /\ UNCHANGED service
       ELSE /\ cache' = [cache EXCEPT ![type] = Cached(fetchProviders(response))]
            /\ lastFetch' = [lastFetch EXCEPT ![type] = now]
            /\ defaultProvider' =
                   [defaultProvider EXCEPT
                       ![type] = getDefaultProviderOf(fetchProviders(response))]
    /\ lastGet' = Get(type, FALSE, ~isCached(type, FALSE, now))
    /\ cleared' = [cleared EXCEPT ![type] = FALSE]
    /\ UNCHANGED << now, hooks, loads, outcomes, picked, asked, lookup,
                    outsideProviders >>

\* providers.find(provider => provider.name === name)
\* (providerService.ts:87): the first provider of that name, or undefined
getProviderByNameOf(providers, name) ==
    LET found == { k \in 1..Len(providers) : providers[k].name = name }
    IN  IF found # {}
        THEN [outcome |-> "provider", name |-> name, providers |-> providers,
              provider |-> providers[CHOOSE k \in found : \A m \in found : k <= m]]
        ELSE [outcome |-> "undefined", name |-> name, providers |-> providers,
              provider |-> NoProvider]

\* getProviderByName (providerService.ts:82-88), with the fetch that its
\* call of getLlmProviders / getSttProviders makes when the cache does not
\* answer
getProviderByName(type, name, response) ==
    /\ calls < MaxCalls
    /\ calls' = calls + 1
    /\ IF isCached(type, FALSE, now)
       THEN /\ lookup' = getProviderByNameOf(cache[type].list, name)
            /\ UNCHANGED service
       ELSE /\ cache' = [cache EXCEPT ![type] = Cached(fetchProviders(response))]
            /\ lastFetch' = [lastFetch EXCEPT ![type] = now]
            /\ lookup' = getProviderByNameOf(fetchProviders(response), name)
    /\ lastGet' = Get(type, FALSE, ~isCached(type, FALSE, now))
    /\ cleared' = [cleared EXCEPT ![type] = FALSE]
    /\ UNCHANGED << now, hooks, loads, defaultProvider, outcomes, picked, asked,
                    outsideProviders >>

\* clearCache (providerService.ts:90-95)
clearCache ==
    /\ cache' = [type \in Kinds |-> NoCache]
    /\ lastFetch' = [type \in Kinds |-> 0]
    /\ cleared' = [type \in Kinds |-> TRUE]
    /\ UNCHANGED << now, hooks, loads, calls, defaultProvider, outcomes, picked,
                    asked, lookup, lastGet, outsideProviders >>

\* time passes
tick ==
    /\ now < MaxTicks * Tick
    /\ now' = now + Tick
    /\ UNCHANGED << service, hooks, loads, calls, defaultProvider, outcomes,
                    picked, asked, serviceHistory, outsideProviders >>

\* the names a caller can ask for
ProviderNames == { "deepgram", "whisper", "openai", "unknown" }

\* The page from its construction: the two useSttProviders instances load
\* and reload the catalog, the user picks providers and starts the first
\* recording.
PageInstances == { "home", "sidebar" }

NextProviders ==
    \/ \E i \in PageInstances : \E forceRefresh \in BOOLEAN :
          loadProviders(i, forceRefresh)
    \/ \E i \in PageInstances : \E response \in Responses(typeOf(i)) :
          fetchSettles(i, response)
    \/ \E i \in PageInstances : \E providerName \in ProviderNames :
          selectProvider(i, providerName)
    \/ sockets = <<>> /\ connect

SpecProviders == Init /\ [][NextProviders]_vars

\* One useSttProviders instance and a caller of getProviderByName: the
\* catalog is loaded and reloaded while providers are asked for by name.
NextLookup ==
    \/ \E forceRefresh \in BOOLEAN : loadProviders("sidebar", forceRefresh)
    \/ \E response \in Responses("stt") : fetchSettles("sidebar", response)
    \/ \E providerName \in ProviderNames : selectProvider("sidebar", providerName)
    \/ \E type \in Kinds : \E name \in ProviderNames :
          \E response \in Responses(type) : getProviderByName(type, name, response)

SpecLookup == Init /\ [][NextLookup]_vars

\* The provider service from its construction, used for both kinds while
\* time passes: by one hook instance of each kind and by getDefaultProvider.
ServiceInstances == { "sidebar", "chat" }

NextService ==
    \/ \E i \in ServiceInstances : \E forceRefresh \in BOOLEAN :
          loadProviders(i, forceRefresh)
    \/ \E i \in ServiceInstances : \E response \in Responses(typeOf(i)) :
          fetchSettles(i, response)
    \/ \E type \in Kinds : \E response \in Responses(type) :
          getDefaultProvider(type, response)
    \/ tick

SpecService == Init /\ [][NextService]_vars

\* The cache of the provider service while time passes: one hook instance
\* of each kind loads and reloads, and the cache is cleared.
NextCache ==
    \/ \E i \in ServiceInstances : \E forceRefresh \in BOOLEAN :
          loadProviders(i, forceRefresh)
    \/ \E i \in ServiceInstances : \E response \in Responses(typeOf(i)) :
          fetchSettles(i, response)
    \/ clearCache
    \/ tick

SpecCache == Init /\ [][NextCache]_vars

(***************************************************************************)
(* The chat: sendMessage and the reading of the response stream.           *)
(***************************************************************************)
outsideChat ==
    << sockets, hookState, receiving, reactState, queues, renderError,
       received, applied, stopRequested, lastCall, audioState, socketUrls,
       providerState, scriptState, captureState >>

RECURSIVE splitLines(_)
\* buffer.split('\n')   (part_009:127)
splitLines(text) ==
    IF text = <<>> THEN << <<>> >>
    ELSE LET rest == splitLines(Tail(text))
         IN  IF Head(text) = NL
             THEN << <<>> >> \o rest
             ELSE << <<Head(text)>> \o Head(rest) >> \o Tail(rest)

\* A loop that keeps nothing of an unfinished line for the next read.
carryNothing(lines) == <<>>

\* lines.pop() || ''   (part_009:128): the unfinished last line
carry(lines) == lines[Len(lines)]

\* line.startsWith('data: ') and JSON.parse(line.slice(6)) (part_009:95-98):
\* the object of the line, NoEvent when the line has no prefix or its rest
\* is not a JSON text
parsed(line) ==
    IF /\ Len(line) = 4
       /\ line[1] = DATA
       /\ line[2] = LBRACE
       /\ line[3].t = "json"
       /\ line[4] = RBRACE
    THEN line[3].e
    ELSE NoEvent

\* updateMessageContent (part_009:74-82)
updateMessageContent(msgs, messageId, newContent) ==
    [k \in 1..Len(msgs) |->
        IF msgs[k].id = messageId
        THEN [msgs[k] EXCEPT !.content = newContent]
        ELSE msgs[k]]

\* appendMessageChunk (part_009:84-92)
appendMessageChunk(msgs, messageId, chunk) ==
    [k \in 1..Len(msgs) |->
        IF msgs[k].id = messageId
        THEN [msgs[k] EXCEPT !.content = @ \o chunk]
        ELSE msgs[k]]

\* processStreamLine (part_009:94-114): a non-empty data.chunk is appended;
\* data.done ends the stream; the Error thrown for data.error is caught by
\* the catch of the same try (line 110) and only logged
processStreamLine(msgs, line, assistantMessageId) ==
    LET data == parsed(line)
    IN  IF data.kind = "chunk" /\ data.text # <<>>
        THEN [messages |-> appendMessageChunk(msgs, assistantMessageId, data.text),
              streamDone |-> FALSE]
        ELSE IF data.kind = "done"
        THEN [messages |-> msgs, streamDone |-> TRUE]
        ELSE [messages |-> msgs, streamDone |-> FALSE]

RECURSIVE processLines(_, _, _)
\* the for loop of handleStreamingResponse (part_009:130-133)
processLines(msgs, lines, assistantMessageId) ==
    IF lines = <<>> THEN [messages |-> msgs, streamDone |-> FALSE]
    ELSE LET r == processStreamLine(msgs, Head(lines), assistantMessageId)
         IN  IF r.streamDone THEN r
             ELSE processLines(r.messages, Tail(lines), assistantMessageId)

\* sendMessage (part_009:164-184) up to the await of the request; the input
\* and the send button are disabled while isLoading (lines 343, 347)
sendMessage(query) ==
    /\ ~isLoading
    /\ request.pc = "idle"
    /\ IF trim(query) = <<>>
       THEN UNCHANGED chatState
       ELSE /\ LET userMessage ==
                       ChatMessage(MessageId("user", idCounter), "user", query)
                   assistantMessage ==
                       ChatMessage(MessageId("assistant", idCounter), "assistant", <<>>)
               IN  /\ messages' = messages \o << userMessage, assistantMessage >>
                   /\ request' = [pc |-> "fetch",
                                  assistantMessageId |-> assistantMessage.id,
                                  buffer |-> <<>>]
            /\ idCounter' = idCounter + 2
            /\ isLoading' = TRUE
            /\ served' = <<>>
            /\ brokeLine' = FALSE
            /\ chatOutcome' = "none"
            /\ UNCHANGED stream
    /\ UNCHANGED outsideChat

\* sendChatRequest throws (part_009:137-154: fetch rejects, or response.ok
\* is false): handleChatError (156-162) and the finally of sendMessage
sendChatRequestFails ==
    /\ request.pc = "fetch"
    /\ messages' = updateMessageContent(messages, request.assistantMessageId,
                                        ErrorMessage)
    /\ isLoading' = FALSE
    /\ request' = NoRequest
    /\ chatOutcome' = "error"
    /\ UNCHANGED << idCounter, stream, served, brokeLine, outsideChat >>

\* sendChatRequest returns the response whose body will carry events
responseArrives(events) ==
    /\ request.pc = "fetch"
    /\ request' = [request EXCEPT !.pc = "read"]
    /\ stream' = Body(events)
    /\ served' = events
    /\ UNCHANGED << messages, idCounter, isLoading, brokeLine, chatOutcome,
                    outsideChat >>

\* One turn of the while loop of handleStreamingResponse (part_009:122-134)
\* for a read that returns the next n pieces of the body; when a line says
\* done the loop ends and sendMessage reaches its finally.
read(n) ==
    /\ request.pc = "read"
    /\ n \in 1..Len(stream)
    /\ stream' = SubSeq(stream, n + 1, Len(stream))
    /\ LET value == SubSeq(stream, 1, n)
           lines == splitLines(request.buffer \o value)
           r == processLines(messages, sliceInit(lines), request.assistantMessageId)
       IN  /\ messages' = r.messages
           /\ IF r.streamDone
              THEN /\ request' = NoRequest
                   /\ isLoading' = FALSE
                   /\ chatOutcome' = "completed"
              ELSE /\ request' = [request EXCEPT !.buffer = carry(lines)]
                   /\ UNCHANGED << isLoading, chatOutcome >>
           /\ brokeLine' = (brokeLine \/ lines[Len(lines)] # <<>>)
    /\ UNCHANGED << idCounter, served, outsideChat >>

\* A sendMessage without its finally block: when the body ends the loop
\* ends, and nothing resets isLoading.
readEndsWithoutFinally ==
    /\ request.pc = "read"
    /\ stream = <<>>
    /\ request' = NoRequest
    /\ chatOutcome' = "completed"
    /\ UNCHANGED << messages, idCounter, isLoading, stream, served, brokeLine,
                    outsideChat >>

\* reader.read() returns done (part_009:124): the loop ends without
\* looking at what is left in buffer
readEnds ==
    /\ request.pc = "read"
    /\ stream = <<>>
    /\ request' = NoRequest
    /\ isLoading' = FALSE
    /\ chatOutcome' = "completed"
    /\ UNCHANGED << messages, idCounter, stream, served, brokeLine,
                    outsideChat >>

\* reader.read() rejects (the connection broke): handleChatError and the
\* finally of sendMessage
readFails ==
    /\ request.pc = "read"
    /\ messages' = updateMessageContent(messages, request.assistantMessageId,
                                        ErrorMessage)
    /\ isLoading' = FALSE
    /\ request' = NoRequest
    /\ chatOutcome' = "failed"
    /\ UNCHANGED << idCounter, stream, served, brokeLine, outsideChat >>

\* The chat from its construction, for the first request of the
\* conversation: the response fails, or its body is read in reads of any
\* size until done, the end of the body or a failure of the connection.
NextChat ==
    \/ \E query \in Queries : messages = <<>> /\ sendMessage(query)
    \/ sendChatRequestFails
    \/ \E events \in SeqsUpTo(StreamEvents, MaxStreamEvents) : responseArrives(events)
    \/ \E n \in 1..Len(stream) : read(n)
    \/ readEnds
    \/ readFails

SpecChat == Init /\ [][NextChat]_vars

\* The bodies of the runs that follow a request to its end: no event, done
\* after a chunk, an error chunk, chunks without done, events after done.
EndingStreams ==
    { <<>>,
      << Chunk(<<"S", "u", "m">>), Done >>,
      << ErrorChunk(<<"boom">>), Chunk(<<"m", "a", "r", "y">>) >>,
      << Chunk(<<"S", "u", "m">>), Chunk(<<"m", "a", "r", "y">>) >>,
      << Done, Chunk(<<"S", "u", "m">>) >> }

\* The chat when the response stream ends: the fetch of a request settles
\* (sendChatRequest returns or throws) and every reader.read() settles
\* (with bytes, with done or with a failure).
fetchSettlesChat ==
    \/ sendChatRequestFails
    \/ \E events \in EndingStreams : responseArrives(events)

readSettles ==
    \/ \E n \in 1..Len(stream) : read(n)
    \/ readEnds
    \/ readFails

NextChatEnds ==
    \/ \E query \in Queries : messages = <<>> /\ sendMessage(query)
    \/ fetchSettlesChat
    \/ readSettles

SpecChatEnds ==
    /\ Init
    /\ [][NextChatEnds]_vars
    /\ WF_vars(fetchSettlesChat)
    /\ WF_vars(readSettles)

(***************************************************************************)
(* start.sh, line by line.                                                 *)
(***************************************************************************)
outsideScript ==
    << sockets, hookState, receiving, reactState, queues, renderError,
       received, applied, stopRequested, lastCall, audioState, socketUrls,
       providerState, chatState, captureState >>

\* exit N: the script ends with what it has left behind
exit(status, line) ==
    /\ scriptPc' = "exited"
    /\ exitStatus' = status
    /\ exitLine' = line

\* kill $PID 2>/dev/null: the signal is sent; the job ends in its own time
kill(jobs) == killed' = killed \cup { job \in jobs : services[job] = "running" }

\* kill -0 $PID: the job is still there
alive(job) == services[job] = "running"

\* lines 7-10: projectRoot is whether the directories backend and frontend
\* exist where the script is run
checkRoot(projectRoot) ==
    /\ scriptPc = "checkRoot"
    /\ IF projectRoot
       THEN scriptPc' = "checkEnv" /\ UNCHANGED << exitStatus, exitLine >>
       ELSE exit(1, 9)
    /\ UNCHANGED << services, killed, interrupted, pidFiles, trapInt >>
    /\ UNCHANGED outsideScript

\* lines 13-17: envFile is whether backend/.env exists
checkEnv(envFile) ==
    /\ scriptPc = "checkEnv"
    /\ IF envFile
       THEN scriptPc' = "startBackend" /\ UNCHANGED << exitStatus, exitLine >>
       ELSE exit(1, 16)
    /\ UNCHANGED << services, killed, interrupted, pidFiles, trapInt >>
    /\ UNCHANGED outsideScript

\* lines 19-30: uv run uvicorn ... &
startBackend ==
    /\ scriptPc = "startBackend"
    /\ services' = [services EXCEPT !["backend"] = "running"]
    /\ scriptPc' = "sleep3"
    /\ UNCHANGED << killed, interrupted, pidFiles, trapInt, exitStatus, exitLine >>
    /\ UNCHANGED outsideScript

\* lines 33-34: sleep 3
sleep3 ==
    /\ scriptPc = "sleep3"
    /\ scriptPc' = "checkBackend"
    /\ UNCHANGED << services, killed, interrupted, pidFiles, trapInt, exitStatus, exitLine >>
    /\ UNCHANGED outsideScript

\* lines 37-41: the check that the backend is running
checkBackend ==
    /\ scriptPc = "checkBackend"
    /\ IF alive("backend")
       THEN scriptPc' = "startFrontend" /\ UNCHANGED << exitStatus, exitLine >>
       ELSE exit(1, 40)
    /\ UNCHANGED << services, killed, interrupted, pidFiles, trapInt >>
    /\ UNCHANGED outsideScript

\* lines 43-48: npm run dev &
startFrontend ==
    /\ scriptPc = "startFrontend"
    /\ services' = [services EXCEPT !["frontend"] = "running"]
    /\ scriptPc' = "sleep5"
    /\ UNCHANGED << killed, interrupted, pidFiles, trapInt, exitStatus, exitLine >>
    /\ UNCHANGED outsideScript

\* lines 51-52: sleep 5
sleep5 ==
    /\ scriptPc = "sleep5"
    /\ scriptPc' = "checkFrontend"
    /\ UNCHANGED << services, killed, interrupted, pidFiles, trapInt, exitStatus, exitLine >>
    /\ UNCHANGED outsideScript

\* lines 55-60: the check that the frontend is running
checkFrontend ==
    /\ scriptPc = "checkFrontend"
    /\ IF alive("frontend")
       THEN /\ scriptPc' = "saveBackendPid"
            /\ UNCHANGED << killed, exitStatus, exitLine >>
       ELSE /\ kill({ "backend" })
            /\ exit(1, 59)
    /\ UNCHANGED << services, interrupted, pidFiles, trapInt >>
    /\ UNCHANGED outsideScript

\* line 75: echo $BACKEND_PID > .backend.pid
saveBackendPid ==
    /\ scriptPc = "saveBackendPid"
    /\ pidFiles' = pidFiles \cup { PidFile("backend") }
    /\ scriptPc' = "saveFrontendPid"
    /\ UNCHANGED << services, killed, interrupted, trapInt, exitStatus, exitLine >>
    /\ UNCHANGED outsideScript

\* line 76: echo $FRONTEND_PID > .frontend.pid
saveFrontendPid ==
    /\ scriptPc = "saveFrontendPid"
    /\ pidFiles' = pidFiles \cup { PidFile("frontend") }
    /\ scriptPc' = "trap"
    /\ UNCHANGED << services, killed, interrupted, trapInt, exitStatus, exitLine >>
    /\ UNCHANGED outsideScript

\* line 79: trap '...' INT
trap ==
    /\ scriptPc = "trap"
    /\ trapInt' = TRUE
    /\ scriptPc' = "monitorBackend"
    /\ UNCHANGED << services, killed, interrupted, pidFiles, exitStatus, exitLine >>
    /\ UNCHANGED outsideScript

\* lines 83-88 of the monitor loop
monitorBackend ==
    /\ scriptPc = "monitorBackend"
    /\ IF alive("backend")
       THEN /\ scriptPc' = "monitorFrontend"
            /\ UNCHANGED << killed, pidFiles, exitStatus, exitLine >>
       ELSE /\ kill({ "frontend" })
            /\ pidFiles' = {}
            /\ exit(1, 87)
    /\ UNCHANGED << services, interrupted, trapInt >>
    /\ UNCHANGED outsideScript

\* lines 90-95 of the monitor loop
monitorFrontend ==
    /\ scriptPc = "monitorFrontend"
    /\ IF alive("frontend")
       THEN /\ scriptPc' = "sleep"
            /\ UNCHANGED << killed, pidFiles, exitStatus, exitLine >>
       ELSE /\ kill({ "backend" })
            /\ pidFiles' = {}
            /\ exit(1, 94)
    /\ UNCHANGED << services, interrupted, trapInt >>
    /\ UNCHANGED outsideScript

\* lines 97-98: sleep 5; done
sleep ==
    /\ scriptPc = "sleep"
    /\ scriptPc' = "monitorBackend"
    /\ UNCHANGED << services, killed, interrupted, pidFiles, trapInt,
                    exitStatus, exitLine >>
    /\ UNCHANGED outsideScript

\* The user presses Ctrl+C while the script runs. With the trap of line 79
\* installed its command runs: kill both jobs, remove the PID files, exit 0.
\* Before line 79 the signal has its default action: the shell ends at once.
\* The terminal sends the signal to the jobs as well; the shell started them
\* with SIGINT ignored, so a job acts on it only if its program installs a
\* handler of its own (reached).
interrupt(reached) ==
    /\ scriptPc # "exited"
    /\ reached \subseteq { job \in Jobs : services[job] = "running" }
    /\ interrupted' = interrupted \cup reached
    /\ IF trapInt
       THEN /\ kill(Jobs)
            /\ pidFiles' = {}
            /\ exit(0, 79)
       ELSE /\ exit(ExitBySignal(SIGINT), 0)
            /\ UNCHANGED << killed, pidFiles >>
    /\ UNCHANGED << services, trapInt >>
    /\ UNCHANGED outsideScript

\* A job ends: it fails, it is stopped from outside, or it was sent a signal.
jobEnds(job) ==
    /\ services[job] = "running"
    /\ services' = [services EXCEPT ![job] = "stopped"]
    /\ UNCHANGED << scriptPc, killed, interrupted, pidFiles, trapInt,
                    exitStatus, exitLine >>
    /\ UNCHANGED outsideScript

\* start.sh from its first line, with the jobs ending at any moment and the
\* user pressing Ctrl+C at any moment.
NextStart ==
    \/ \E projectRoot \in BOOLEAN : checkRoot(projectRoot)
    \/ \E envFile \in BOOLEAN : checkEnv(envFile)
    \/ startBackend
    \/ sleep3
    \/ checkBackend
    \/ startFrontend
    \/ sleep5
    \/ checkFrontend
    \/ saveBackendPid
    \/ saveFrontendPid
    \/ trap
    \/ monitorBackend
    \/ monitorFrontend
    \/ sleep
    \/ \E reached \in SUBSET Jobs : interrupt(reached)
    \/ \E job \in Jobs : jobEnds(job)

SpecStart == Init /\ [][NextStart]_vars

(***************************************************************************)
(* useSystemAudio (in the Tauri environment): startCapture, stopCapture,   *)
(* the unmount cleanup and the 'audio-data' events.                        *)
(***************************************************************************)
outsideCapture ==
    << sockets, hookState, receiving, reactState, queues, renderError,
       received, applied, stopRequested, lastCall, audioState, socketUrls,
       providerState, chatState, scriptState >>

\* a startCapture call suspended at `await listen(...)` (line 175) or, with
\* its listener registered, at `await invoke('start_system_audio_capture')`
\* (line 214); unlisten names the listener of the call
AtListen(unlisten) == [pc |-> "listen", unlisten |-> unlisten]
AtInvoke(unlisten) == [pc |-> "invoke", unlisten |-> unlisten]

\* seq without its k-th entry
RemoveAt(seq, k) == SubSeq(seq, 1, k - 1) \o SubSeq(seq, k + 1, Len(seq))

\* startCapture (lines 165-220) up to `await listen`
startCapture ==
    /\ mounted
    /\ started < MaxStarts
    /\ started' = started + 1
    /\ starts' = Append(starts, AtListen(started + 1))
    /\ lastCapture' = "start"
    /\ UNCHANGED << listeners, unlistenRef, isCapturing, capturing, stopPc,
                    mounted, frames >>
    /\ UNCHANGED outsideCapture

\* listen resolves (line 175): the listener is registered; line 210 stores
\* its unlisten function in unlistenRef, over whatever was there, and line
\* 214 sends the start command
listenResolves(k) ==
    /\ k \in 1..Len(starts)
    /\ starts[k].pc = "listen"
    /\ LET unlisten == starts[k].unlisten
       IN  /\ listeners' = listeners \cup { unlisten }
           /\ unlistenRef' = unlisten
           /\ starts' = [starts EXCEPT ![k] = AtInvoke(unlisten)]
    /\ UNCHANGED << isCapturing, capturing, started, stopPc, mounted,
                    lastCapture, frames >>
    /\ UNCHANGED outsideCapture

\* invoke('start_system_audio_capture') settles (lines 214-219): capture
\* has started and isCapturing is set, or the command failed and the error
\* is thrown again
startSettles(k, ok) ==
    /\ k \in 1..Len(starts)
    /\ starts[k].pc = "invoke"
    /\ starts' = RemoveAt(starts, k)
    /\ IF ok
       THEN /\ capturing' = TRUE
            /\ isCapturing' = TRUE
       ELSE UNCHANGED << capturing, isCapturing >>
    /\ UNCHANGED << listeners, unlistenRef, started, stopPc, mounted,
                    lastCapture, frames >>
    /\ UNCHANGED outsideCapture

\* stopCapture (lines 223-250) up to `await invoke`; it returns at once
\* when isCapturing is false (line 229)
stopCapture ==
    /\ mounted
    /\ stopPc = "idle"
    /\ IF isCapturing
       THEN stopPc' = "invoke" /\ UNCHANGED lastCapture
       ELSE lastCapture' = "stop" /\ UNCHANGED stopPc
    /\ UNCHANGED << listeners, unlistenRef, isCapturing, capturing, starts,
                    started, mounted, frames >>
    /\ UNCHANGED outsideCapture

\* invoke('stop_system_audio_capture') settles (lines 235-249): the state
\* is reset and the listener of unlistenRef is unregistered, or the command
\* failed and the error is logged
stopSettles(ok) ==
    /\ stopPc = "invoke"
    /\ stopPc' = "idle"
    /\ lastCapture' = "stop"
    /\ IF ok
       THEN /\ capturing' = FALSE
            /\ isCapturing' = FALSE
            /\ listeners' = listeners \ { unlistenRef }
            /\ unlistenRef' = Null
       ELSE UNCHANGED << capturing, isCapturing, listeners, unlistenRef >>
    /\ UNCHANGED << starts, started, mounted, frames >>
    /\ UNCHANGED outsideCapture

\* the cleanup of the unmount effect (lines 262-271)
unmount ==
    /\ mounted
    /\ mounted' = FALSE
    /\ listeners' = listeners \ { unlistenRef }
    /\ UNCHANGED << unlistenRef, isCapturing, capturing, starts, started,
                    stopPc, lastCapture, frames >>
    /\ UNCHANGED outsideCapture

\* The backend emits 'audio-data': every registered listener runs and
\* calls onAudioData (lines 175-177).
audioData ==
    /\ capturing
    /\ Len(frames) < MaxFrames
    /\ frames' = Append(frames, Cardinality(listeners))
    /\ UNCHANGED << listeners, unlistenRef, isCapturing, capturing, starts,
                    started, stopPc, mounted, lastCapture >>
    /\ UNCHANGED outsideCapture

\* The hook from its first render to its unmount.
NextCapture ==
    \/ startCapture
    \/ \E k \in 1..Len(starts) : listenResolves(k)
    \/ \E k \in 1..Len(starts) : \E ok \in BOOLEAN : startSettles(k, ok)
    \/ stopCapture
    \/ \E ok \in BOOLEAN : stopSettles(ok)
    \/ unmount
    \/ audioData

SpecCapture == Init /\ [][NextCapture]_vars

TypeOK ==
    /\ \A ws \in Sockets : sockets[ws] \in {"CONNECTING", "OPEN", "CLOSING", "CLOSED"}
    /\ socketRef \in {Null} \cup Sockets
    /\ socket \in {Null} \cup Sockets
    /\ isConnected \in BOOLEAN
    /\ isReceiving \in BOOLEAN
    /\ timers \in 0..MaxEvents
    /\ applied \in 0..Len(received)
    /\ Len(received) <= MaxEvents

(***************************************************************************)
(* The history, read as the specification reads an event sequence.         *)
(***************************************************************************)
\* the entries of received whose updates are rendered
appliedOps == SubSeq(received, 1, applied)

nonEmpty(word) == word # <<>>

\* the words of a text: the text up to its separator spaces
Words(text) == SelectSeq(split(text), nonEmpty)

\* a recognition event with segments (possibly none), or one in the legacy
\* transcript format
IsSegmentsEvent(data) == data.json = "object" /\ data.hasSegments
IsLegacyEvent(data) ==
    data.json = "object" /\ ~data.hasSegments /\ data.transcript # <<>>
IsEvent(data) == IsSegmentsEvent(data) \/ IsLegacyEvent(data)

\* the texts of the entries that have one
textsOf(segments) ==
    LET hasText(seg) == seg.kind = "object"
    IN  mapText(SelectSeq(segments, hasText))

EventText(data) ==
    IF IsSegmentsEvent(data) THEN join(textsOf(data.segments)) ELSE data.transcript

NothingReconciled ==
    [finalSegments |-> <<>>, interimSegments |-> <<>>,
     finalWords |-> <<>>, interimWords |-> <<>>]

\* One event applied as section 4.4 of the specification says: a final event
\* appends its segments and clears the pending interim set, an interim event
\* replaces the pending interim set; anything else changes nothing.
ReconcileOne(r, op) ==
    IF op.clear THEN NothingReconciled
    ELSE IF ~IsEvent(op.data) THEN r
    ELSE IF op.data.is_final
    THEN [finalSegments |-> r.finalSegments \o op.data.segments,
          interimSegments |-> <<>>,
          finalWords |-> r.finalWords \o Words(EventText(op.data)),
          interimWords |-> <<>>]
    ELSE [r EXCEPT !.interimSegments = op.data.segments,
                   !.interimWords = Words(EventText(op.data))]

RECURSIVE Reconciled(_)
Reconciled(ops) ==
    IF ops = <<>> THEN NothingReconciled
    ELSE ReconcileOne(Reconciled(SubSeq(ops, 1, Len(ops) - 1)), ops[Len(ops)])

Range(seq) == { seq[i] : i \in 1..Len(seq) }

\* The segments that final events (final = TRUE) or interim events
\* (final = FALSE) have delivered so far.
SegmentsDelivered(final) ==
    UNION { Range(received[k].data.segments) :
              k \in { i \in 1..Len(received) :
                        /\ ~received[i].clear
                        /\ IsSegmentsEvent(received[i].data)
                        /\ received[i].data.is_final = final } }

\* a segment that only interim events have delivered
FromInterim(seg) ==
    seg \in SegmentsDelivered(FALSE) /\ seg \notin SegmentsDelivered(TRUE)

FromFinal(seg) == seg \in SegmentsDelivered(TRUE)

\* the last entry whose updates are rendered
LastApplied == received[applied]

\* the entries a step renders
Rendering(i) == i \in (applied + 1)..(applied')

(***************************************************************************)
(* C1. For every sequence of recognition events, the rendered transcript   *)
(* is the texts of all final events in arrival order, followed by the text *)
(* of the most recent interim event if one is still pending, up to         *)
(* separator spaces.                                                       *)
(***************************************************************************)
C1_RenderedTranscript ==
    ~renderError =>
        LET r == Reconciled(appliedOps)
        IN  Words(transcript) = r.finalWords \o r.interimWords

(***************************************************************************)
(* C2. After an interim event with non-empty segments is handled, the      *)
(* interim part of the state is exactly that event's segments: the list    *)
(* ends with them and holds no segment of an earlier interim event, and    *)
(* the text is the finalized text followed by the event's text.            *)
(***************************************************************************)
C2_InterimReplaced ==
    (/\ ~renderError
     /\ applied > 0
     /\ ~LastApplied.clear
     /\ takesSegmentsBranch(LastApplied.data)
     /\ ~HasNullEntry(LastApplied.data.segments)
     /\ ~LastApplied.data.is_final)
    => LET segs == LastApplied.data.segments
           n == Len(transcriptSegments)
           k == Len(segs)
           r == Reconciled(appliedOps)
       IN  /\ n >= k
           /\ SubSeq(transcriptSegments, n - k + 1, n) = segs
           /\ \A i \in 1..(n - k) : ~FromInterim(transcriptSegments[i])
           /\ Words(transcript) = r.finalWords \o Words(segmentText(segs))

(***************************************************************************)
(* C3. After a final event with non-empty segments is handled,             *)
(* transcriptSegments is exactly the segments of all final events received *)
(* so far, in arrival order, with no segment of an interim event.          *)
(***************************************************************************)
C3_FinalAppended ==
    (/\ ~renderError
     /\ applied > 0
     /\ ~LastApplied.clear
     /\ takesSegmentsBranch(LastApplied.data)
     /\ ~HasNullEntry(LastApplied.data.segments)
     /\ LastApplied.data.is_final)
    => transcriptSegments = Reconciled(appliedOps).finalSegments

(***************************************************************************)
(* C4. Handling the same interim event twice in a row is idempotent: the   *)
(* second application leaves transcript and transcriptSegments as the      *)
(* first left them.                                                        *)
(***************************************************************************)
C4_InterimIdempotent ==
    [][ (/\ applied >= 1
         /\ applied' = applied + 1
         /\ ~renderError'
         /\ received[applied'] = LastApplied
         /\ ~LastApplied.clear
         /\ IsEvent(LastApplied.data)
         /\ ~LastApplied.data.is_final)
        => (transcript' = transcript /\ transcriptSegments' = transcriptSegments)
      ]_vars

(***************************************************************************)
(* C5. The finalized transcript is append-only: unless clearTranscript is  *)
(* applied, the segments of final events that are in transcriptSegments    *)
(* stay there, unaltered and in the same order, whatever their confidence. *)
(***************************************************************************)
C5_FinalizedAppendOnly ==
    [][ (/\ applied' > applied
         /\ \A i \in 1..Len(received) : Rendering(i) => ~received[i].clear)
        => LET before == SelectSeq(transcriptSegments, FromFinal)
               after == SelectSeq(transcriptSegments', FromFinal)
           IN  /\ Len(after) >= Len(before)
               /\ SubSeq(after, 1, Len(before)) = before
      ]_vars

(***************************************************************************)
(* C6. A final event with an empty segments list leaves the finalized      *)
(* content unchanged and clears the pending interim set: afterwards the    *)
(* state holds no content of an earlier interim event.                     *)
(***************************************************************************)
C6_EmptyFinalClearsInterim ==
    (/\ ~renderError
     /\ applied > 0
     /\ ~LastApplied.clear
     /\ IsSegmentsEvent(LastApplied.data)
     /\ LastApplied.data.segments = <<>>
     /\ LastApplied.data.is_final)
    => /\ \A i \in 1..Len(transcriptSegments) : ~FromInterim(transcriptSegments[i])
       /\ Words(transcript) = Reconciled(appliedOps).finalWords

(***************************************************************************)
(* C7. Events are applied one at a time in arrival order, without          *)
(* reordering or coalescing: the rendered transcript and transcriptSegments *)
(* are what the updates of the handled entries give when each entry's two  *)
(* updates are applied before those of the next entry, and both always     *)
(* reflect the same entries.                                               *)
(***************************************************************************)
OneAtATime(state, op) ==
    IF op.clear THEN [transcript |-> <<>>, transcriptSegments |-> <<>>]
    ELSE LET t == transcriptUpdatesOf(op.data)
             g == segmentsUpdatesOf(op.data)
         IN  [transcript |->
                 IF t = <<>> THEN state.transcript
                 ELSE transcriptUpdater(t[1].is_final, t[1].text, state.transcript),
              transcriptSegments |->
                 IF g = <<>> THEN state.transcriptSegments
                 ELSE segmentsUpdater(g[1].data, state.transcriptSegments)]

RECURSIVE InArrivalOrder(_)
InArrivalOrder(ops) ==
    IF ops = <<>> THEN [transcript |-> <<>>, transcriptSegments |-> <<>>]
    ELSE OneAtATime(InArrivalOrder(SubSeq(ops, 1, Len(ops) - 1)), ops[Len(ops)])

C7_ArrivalOrder ==
    ~renderError =>
        LET expected == InArrivalOrder(appliedOps)
        IN  /\ transcript = expected.transcript
            /\ transcriptSegments = expected.transcriptSegments

\* two different events with segments are rendered, the second a final one
C7_Witness ==
    /\ ~renderError
    /\ applied >= 2
    /\ ~received[1].clear /\ ~received[2].clear
    /\ received[1].data \in InterimMessages
    /\ received[2].data \in FinalMessages
    /\ takesSegmentsBranch(received[2].data)
    /\ Len(transcriptSegments) >= 2

(***************************************************************************)
(* C8. The message handler never raises on malformed input: no message     *)
(* makes the handler or a later render throw, and a malformed message      *)
(* (non-JSON text, JSON null, JSON without segments, a segments array with *)
(* a null entry) changes neither transcript nor transcriptSegments.        *)
(***************************************************************************)
C8_MalformedIsNoOp ==
    [][ /\ ~renderError'
        /\ (/\ applied' > applied
            /\ \A i \in 1..Len(received) :
                 Rendering(i) =>
                     ~received[i].clear /\ received[i].data \in MalformedMessages)
           => (transcript' = transcript /\ transcriptSegments' = transcriptSegments)
      ]_vars

(***************************************************************************)
(* C9. Every socket opened by connect() is released: once disconnect() was *)
(* the caller's last call and all pending socket callbacks have run, no    *)
(* socket of the hook is open; and at no time are there two live sockets.  *)
(***************************************************************************)
Live == { ws \in Sockets : sockets[ws] \in {"CONNECTING", "OPEN"} }
CallbacksPending == \E ws \in Sockets : sockets[ws] \in {"CONNECTING", "CLOSING"}

C9_SocketsReleased ==
    /\ (lastCall = "disconnect" /\ ~CallbacksPending) => Live = {}
    /\ Cardinality(Live) <= 1

(***************************************************************************)
(* C10. Once a session has been stopped (disconnect() was called, or its   *)
(* socket closed), an event delivered for it is discarded: the handler     *)
(* queues no update of transcript or transcriptSegments.                   *)
(***************************************************************************)
C10_StoppedSessionIgnored ==
    [][ (/\ Len(received') = Len(received) + 1
         /\ ~received'[Len(received')].clear
         /\ LET ws == received'[Len(received')].ws
            IN  stopRequested[ws] \/ sockets[ws] = "CLOSED")
        => UNCHANGED << segmentsQueue, transcriptQueue >>
      ]_vars

(***************************************************************************)
(* C11. A frame given to sendAudio while the session is not yet active     *)
(* (before connect(), or while the socket is connecting) is kept and       *)
(* delivered once the session is active: when a socket that was connecting *)
(* at that moment is open, or, for a frame given before any connect(),     *)
(* when any socket is open, the frame has been sent.                       *)
(***************************************************************************)
C11_EarlyFramesDelivered ==
    \A i \in 1..Len(submitted) :
        LET e == submitted[i]
            nowOpen == { ws \in Sockets : sockets[ws] = "OPEN" }
            session == IF e.created = 0 THEN nowOpen ELSE e.connecting \cap nowOpen
        IN  (e.open = {} /\ session # {})
            => \E j \in 1..Len(sent) : sent[j].data = e.data /\ sent[j].ws \in session

(***************************************************************************)
(* C12. While a socket is open, every frame given to sendAudio is sent     *)
(* exactly once, unchanged and after the frames given before it; a frame   *)
(* given while every socket is closing or closed is dropped and no state   *)
(* of the hook changes.                                                    *)
(***************************************************************************)
C12_FramesForwarded ==
    [][ Len(submitted') = Len(submitted) + 1
        => LET e == submitted'[Len(submitted')]
           IN  /\ e.open # {}
                   => \E ws \in e.open : sent' = Append(sent, Sent(ws, e.data))
               /\ (e.created > 0 /\ e.open = {} /\ e.connecting = {})
                   => /\ sent' = sent
                      /\ UNCHANGED << sockets, hookState, receiving, reactState >>
      ]_vars

C14_UrlUsesSelection ==
    [][ (/\ Len(socketUrls') > Len(socketUrls)
         /\ picked # ""
         /\ loads["home"].phase = "idle"
         /\ hooks["home"].providers = hooks["sidebar"].providers)
        => LET url == socketUrls'[Len(socketUrls')]
           IN  /\ url.provider = picked
               /\ url.model = hooks["sidebar"].selectedModel
      ]_vars

(***************************************************************************)
(* C15. The default provider of a kind is the first of the catalog: the    *)
(* first selection a useProviders instance makes is element 0 with its     *)
(* default_model, getDefaultProvider resolves to element 0, and resolving  *)
(* the default of an empty catalog ends with an error.                     *)
(***************************************************************************)
\* a step in which instance i gets its first selection
InitialSelection(i) ==
    (hooks[i].selectedProvider = "" /\ hooks'[i].selectedProvider # "")
    => /\ hooks'[i].providers # <<>>
       /\ hooks'[i].selectedProvider = hooks'[i].providers[1].name
       /\ hooks'[i].selectedModel = hooks'[i].providers[1].default_model

\* a load that ends with a non-empty list while nothing is selected selects
LoadSelects(i) ==
    (/\ hooks[i].isLoading
     /\ ~hooks'[i].isLoading
     /\ hooks[i].selectedProvider = ""
     /\ hooks'[i].providers # <<>>)
    => hooks'[i].selectedProvider = hooks'[i].providers[1].name

\* what getDefaultProvider resolved to, onEmpty being the outcome for a kind
\* without providers
DefaultResolved(onEmpty) ==
    \A type \in Kinds :
        LET r == defaultProvider[type]
        IN  r.outcome # "none"
            => IF r.providers # <<>>
               THEN r.outcome = "provider" /\ r.provider = r.providers[1]
               ELSE r.outcome = onEmpty

C18_FailureDistinguished ==
    \A i \in Instances :
        loads[i].phase = "idle"
        => /\ outcomes[i] = "failed" => hooks[i].error # NoError
           /\ (outcomes[i] = "ok" /\ hooks[i].providers = <<>>)
                  => hooks[i].error = NoError

(***************************************************************************)
(* The response stream, read as the specification reads it.                *)
(***************************************************************************)
RECURSIVE beforeDone(_)
\* the events before the first done event
beforeDone(events) ==
    IF events = <<>> \/ Head(events).kind = "done" THEN <<>>
    ELSE << Head(events) >> \o beforeDone(Tail(events))

RECURSIVE chunkTexts(_)
\* the concatenation of the chunk texts, in order
chunkTexts(events) ==
    IF events = <<>> THEN <<>>
    ELSE (IF Head(events).kind = "chunk" THEN Head(events).text ELSE <<>>)
             \o chunkTexts(Tail(events))

hasErrorChunk(events) == \E k \in 1..Len(events) : events[k].kind = "error"

\* the assistant message of the request, the last of the list
assistantContent == messages[Len(messages)].content

(***************************************************************************)
(* C16. When the reading of a chat response stream has ended (at done or   *)
(* at the end of the body), the content of the assistant message is the    *)
(* concatenation of the chunk texts in arrival order up to the first done  *)
(* event, however the body was split into reads; the user message is as    *)
(* it was sent.                                                            *)
(***************************************************************************)
C16_ContentIsConcatenation ==
    chatOutcome = "completed"
    => /\ Len(messages) = 2
       /\ assistantContent = chunkTexts(beforeDone(served))
       /\ messages[1].type = "user" /\ messages[1].content # <<>>

\* 'Sum', 'mary', done, read with a read that ended inside a line, gave
\* 'Summary'
C16_Witness ==
    /\ chatOutcome = "completed"
    /\ served = << Chunk(<<"S", "u", "m">>), Chunk(<<"m", "a", "r", "y">>), Done >>
    /\ brokeLine
    /\ assistantContent = << "S", "u", "m", "m", "a", "r", "y" >>

(***************************************************************************)
(* C17. An error chunk is terminal: a request whose stream carried an      *)
(* error chunk (before any done) never ends as a completed answer; it      *)
(* ends with the error message of handleChatError as the content of the    *)
(* assistant message.                                                      *)
(***************************************************************************)
C17_ErrorChunkIsTerminal ==
    (/\ request.pc = "idle"
     /\ chatOutcome # "none"
     /\ hasErrorChunk(beforeDone(served)))
    => /\ chatOutcome # "completed"
       /\ assistantContent = ErrorMessage

(***************************************************************************)
(* C19. The transcript text and the segment list agree: transcript is the  *)
(* texts of the finalized segments of transcriptSegments in list order     *)
(* followed by the texts of its interim segments, up to separator spaces.  *)
(* Checked for the states that events with well-formed, non-empty segments *)
(* have led to.                                                            *)
(***************************************************************************)
OnlySegmentEvents ==
    \A i \in 1..Len(received) :
        \/ received[i].clear
        \/ /\ takesSegmentsBranch(received[i].data)
           /\ ~HasNullEntry(received[i].data.segments)

C19_TextAgreesWithSegments ==
    (~renderError /\ applied = Len(received) /\ OnlySegmentEvents)
    => LET finalized == SelectSeq(transcriptSegments, FromFinal)
           interim == SelectSeq(transcriptSegments, FromInterim)
       IN  Words(transcript)
               = Words(segmentText(finalized)) \o Words(segmentText(interim))

(***************************************************************************)
(* C20. The start_time values of the finalized segments held in            *)
(* transcriptSegments are non-decreasing in list order.                    *)
(***************************************************************************)
C20_StartTimesNonDecreasing ==
    (~renderError /\ OnlySegmentEvents)
    => LET finalized == SelectSeq(transcriptSegments, FromFinal)
       IN  \A i, j \in 1..Len(finalized) :
               i < j => finalized[i].start_time <= finalized[j].start_time

(***************************************************************************)
(* C21. Segments are passed through verbatim: every segment held in        *)
(* transcriptSegments is equal in all its fields (text, speaker,           *)
(* start_time, end_time, confidence) to a segment that some handled event  *)
(* carried, and the segments taken from one rendered event are held in the *)
(* order and number in which the event carried them: no label is           *)
(* rewritten, no segments are merged or split.                             *)
(***************************************************************************)
SegmentsReceived == SegmentsDelivered(TRUE) \cup SegmentsDelivered(FALSE)

\* the list ends with the segments of the event, as the event carried them
EndsWith(list, segments) ==
    /\ Len(list) >= Len(segments)
    /\ SubSeq(list, Len(list) - Len(segments) + 1, Len(list)) = segments

C21_SegmentsVerbatim ==
    /\ \A i \in 1..Len(transcriptSegments) :
           transcriptSegments[i] \in SegmentsReceived
    /\ (~renderError /\ applied = Len(received) /\ applied > 0
           /\ ~LastApplied.clear /\ takesSegmentsBranch(LastApplied.data))
       => EndsWith(transcriptSegments, LastApplied.data.segments)

\* a final event with two segments of different speakers is rendered after
\* an interim event of another speaker
C21_Witness ==
    /\ ~renderError
    /\ applied = Len(received)
    /\ Len(transcriptSegments) >= 3
    /\ \E i, j \in 1..Len(transcriptSegments) :
           /\ i < j
           /\ FromInterim(transcriptSegments[i])
           /\ transcriptSegments[j] = finB
           /\ transcriptSegments[j].speaker # transcriptSegments[i].speaker

(***************************************************************************)
(* C22. Asking for a provider by a name that the catalog does not hold     *)
(* finds nothing and selects nothing: a selectProvider call with a name    *)
(* that is not in the instance's loaded providers leaves its               *)
(* selectedProvider and selectedModel (and the rest of its state)          *)
(* unchanged, and getProviderByName resolves to undefined, no provider,    *)
(* for a name that the list it looked in does not hold.                    *)
(***************************************************************************)
namesOf(providers) == { providers[k].name : k \in 1..Len(providers) }

C22_AbsentNameFindsNothing ==
    [][ /\ (asked' # asked
              /\ asked'.name \notin namesOf(hooks[asked'.instance].providers))
           => hooks' = hooks
        /\ (lookup' # lookup /\ lookup'.name \notin namesOf(lookup'.providers))
           => /\ lookup'.outcome = "undefined"
              /\ lookup'.provider = NoProvider ]_vars

\* an instance that has loaded a catalog and selected a provider was asked
\* for an unknown name, and the service was asked for a name that its
\* non-empty list does not hold
C22_Witness ==
    /\ asked.instance = "sidebar"
    /\ hooks["sidebar"].providers # <<>>
    /\ asked.name \notin namesOf(hooks["sidebar"].providers)
    /\ hooks["sidebar"].selectedProvider \in namesOf(hooks["sidebar"].providers)
    /\ lookup.outcome = "undefined"
    /\ lookup.providers # <<>>
    /\ lookup.name \notin namesOf(lookup.providers)

(***************************************************************************)
(* C23. Once start.sh has started a service, whenever it has exited it has *)
(* sent kill to every service it started that is still running and neither *)
(* .backend.pid nor .frontend.pid exists: it never exits leaving a service *)
(* it started running, or a PID file, behind. A running service that acts  *)
(* on the terminal's own SIGINT counts as signalled.                       *)
(***************************************************************************)
C23_ExitLeavesNothing ==
    (scriptPc = "exited" /\ \E job \in Jobs : services[job] # "none")
    => /\ \A job \in Jobs :
              services[job] = "running" => job \in killed \cup interrupted
       /\ pidFiles = {}

(***************************************************************************)
(* C24. The close or error callback of an older socket, one that           *)
(* disconnect() has already closed, never clears socketRef or isConnected  *)
(* while they describe a newer socket, created by a later connect(), that  *)
(* is open.                                                                *)
(***************************************************************************)
C24_OlderSocketLeavesNewer ==
    [][ \A old, new \in Sockets :
          ( /\ old < new
            /\ stopRequested[old] /\ ~stopRequested[new]
            /\ sockets[old] = "CLOSING" /\ sockets'[old] = "CLOSED"
            /\ sockets[new] = "OPEN" /\ sockets'[new] = "OPEN"
            /\ socketRef = new /\ isConnected )
          => (socketRef' = new /\ isConnected') ]_vars

(***************************************************************************)
(* C25. getLlmProviders / getSttProviders fetch exactly when forceRefresh  *)
(* is set, the cache of the kind is empty (null), or at least cacheExpiry  *)
(* has passed since lastFetch of the kind; otherwise they answer from the  *)
(* cache and leave it alone. A step changes the cached list or timestamp   *)
(* of a kind only if it is clearCache or ends a fetch of that kind. After  *)
(* clearCache the next call of each kind fetches.                          *)
(***************************************************************************)
\* the step is a call of getLlmProviders / getSttProviders
IsGet == calls' # calls

\* the step ends a fetch of the kind
EndsFetchOf(type) ==
    \/ IsGet /\ lastGet'.type = type /\ lastGet'.fetched
    \/ \E i \in Instances :
          /\ typeOf(i) = type
          /\ loads[i].phase = "fetching"
          /\ loads'[i].phase = "idle"

IsClearCache ==
    /\ \A type \in Kinds : cache'[type].isNull /\ lastFetch'[type] = 0
    /\ \A type \in Kinds : cleared'[type]

FetchesOnlyWhenDue ==
    IsGet =>
        LET type == lastGet'.type
            due == \/ lastGet'.forceRefresh
                   \/ cache[type].isNull
                   \/ (now - lastFetch[type]) >= cacheExpiry
        IN  /\ lastGet'.fetched <=> due
            /\ ~lastGet'.fetched => (cache' = cache /\ lastFetch' = lastFetch)

KindsAreIndependent ==
    \A type \in Kinds :
        (cache'[type] # cache[type] \/ lastFetch'[type] # lastFetch[type])
        => (IsClearCache \/ EndsFetchOf(type))

FetchesAfterClearCache ==
    IsGet => (cleared[lastGet'.type] => lastGet'.fetched)

C25_CacheDiscipline ==
    [][FetchesOnlyWhenDue /\ KindsAreIndependent /\ FetchesAfterClearCache]_vars

(***************************************************************************)
(* C26. A failed provider fetch never replaces a cached provider list and  *)
(* is not cached itself: when the fetch of a load fails, a cache that held *)
(* a list still holds that list, which is what the call returns, and an    *)
(* empty (null) cache stays empty, so that the next call fetches again.    *)
(***************************************************************************)
C26_FailureKeepsCache ==
    [][ \A i \in Instances :
          ( /\ loads[i].phase = "fetching"
            /\ loads'[i].phase = "idle"
            /\ outcomes'[i] = "failed" )
          => LET type == typeOf(i)
             IN  /\ cache'[type] = cache[type]
                 /\ ~cache[type].isNull
                    => hooks'[i].providers = cache[type].list ]_vars

(***************************************************************************)
(* C27. In every useProviders instance, whenever no load of the instance   *)
(* is in flight, selectedProvider is empty or the name of a provider of    *)
(* the instance's current providers list.                                  *)
(***************************************************************************)
C27_SelectionInCatalog ==
    \A i \in Instances :
        loads[i].phase = "idle"
        => \/ hooks[i].selectedProvider = ""
           \/ hooks[i].selectedProvider \in namesOf(hooks[i].providers)

(***************************************************************************)
(* C28. isReceiving covers the receiving window of the most recent         *)
(* message: while the socket stays open and the timer that the last        *)
(* handled message scheduled has not fired, isReceiving is true; the timer *)
(* of an earlier message does not reset it. The timers have one delay and  *)
(* fire in the order they were scheduled, so the last message's timer is   *)
(* pending as long as any timer is.                                        *)
(***************************************************************************)
C28_ReceivingCoversWindow ==
    (~renderError /\ timers > 0 /\ \A ws \in Sockets : sockets[ws] = "OPEN")
    => isReceiving

(***************************************************************************)
(* C29. Every sendMessage that starts a request ends with isLoading reset  *)
(* to false, provided the response stream ends: whenever isLoading is true *)
(* it is eventually false again, however the request ends (done, HTTP      *)
(* error status, network failure, error chunk, end of the body without     *)
(* done). A blank query starts no request and changes no state: a request  *)
(* is in progress only after a user message was added, and every user      *)
(* message of the conversation is a non-blank query.                       *)
(***************************************************************************)
BlankQueryStartsNothing ==
    /\ (request.pc # "idle" \/ isLoading) => messages # <<>>
    /\ \A k \in 1..Len(messages) :
           messages[k].type = "user" => trim(messages[k].content) # <<>>

C29_LoadingEnds ==
    /\ []BlankQueryStartsNothing
    /\ isLoading ~> ~isLoading

\* a request has ended without done: its body held an error chunk and then
\* ended, and the input is enabled again
C29_Witness ==
    /\ ~isLoading
    /\ request.pc = "idle"
    /\ messages # <<>>
    /\ hasErrorChunk(served)
    /\ Done \notin Range(served)
    /\ stream = <<>>
    /\ chatOutcome = "completed"

(***************************************************************************)
(* C30. Every 'audio-data' listener that startCapture registered is        *)
(* unregistered once stopCapture has returned or the hook has unmounted    *)
(* (with no startCapture call made since or still in progress), and at     *)
(* most one registered listener forwards frames to onAudioData: no event   *)
(* is forwarded more than once.                                            *)
(***************************************************************************)
C30_ListenersReleased ==
    /\ Cardinality(listeners) <= 1
    /\ \A k \in 1..Len(frames) : frames[k] <= 1
    /\ (starts = <<>> /\ stopPc = "idle" /\ (lastCapture = "stop" \/ ~mounted))
       => listeners = {}

====
